---- MODULE Spec2Model ----
(***************************************************************************)
(* State machine of the React component App (src/portfolio-stress-test/    *)
(* src/App.js): the useState cells, window.searchTimeout, the pending      *)
(* timers and the fetch calls whose promises have not settled yet.  Every  *)
(* event handler runs to its first await in one step; the continuation     *)
(* after the await is a second step that reads what the closure captured   *)
(* when the handler was called.                                            *)
(*                                                                         *)
(* Strings are sequences of one-character strings, so that toUpperCase,    *)
(* trim and parseFloat are computed and not assumed.                       *)
(***************************************************************************)
EXTENDS Integers, Sequences, FiniteSets, TLC

\* ------------------------------------------------------------------ bounds
MaxPortfolio == 2   \* holdings kept in the portfolio
MaxValidate == 2    \* validate-ticker calls in flight
MaxStress == 2      \* stress-test calls in flight
MaxTimers == 2      \* setTimeout handles handed out for the search debounce
MaxBlur == 1        \* pending onBlur timers
MaxNow == 1         \* last value of the Date.now() clock

\* ------------------------------------------------------------------ inputs
\* Values the user can leave in the ticker input.
TypedValues == { <<>>, <<" ">>, <<"a">>, <<"a", "b">> }

\* Values the user can leave in the shares input.
ShareInputs == { <<>>, <<"0">>, <<"-", "1">>, <<"2">>, <<"x">> }

\* Suggestions the search collaborator can answer with.
StockA == [ticker |-> <<"A">>]
StockB == [ticker |-> <<"B">>]
ResultLists == { <<>>, <<StockA>>, <<StockB, StockA>> }

\* Bodies of a successful stress-test response: results and ai_insights.
StressBodies == { [results |-> "R1", ai_insights |-> "I1"],
                  [results |-> "R2", ai_insights |-> ""] }

\* data.error of a non-success stress-test response ("" stands for a body
\* without the field: both are falsy).
ServerErrors == { "", "No valid stocks" }

\* ------------------------------------------------------------------ strings
UpperChar(c) ==
    CASE c = "a" -> "A"
      [] c = "b" -> "B"
      [] OTHER -> c

\* String.prototype.toUpperCase
ToUpperCase(s) == [i \in DOMAIN s |-> UpperChar(s[i])]

RECURSIVE TrimStart(_)
TrimStart(s) ==
    IF s # <<>> /\ Head(s) = " " THEN TrimStart(Tail(s)) ELSE s

RECURSIVE TrimEnd(_)
TrimEnd(s) ==
    IF s # <<>> /\ s[Len(s)] = " " THEN TrimEnd(SubSeq(s, 1, Len(s) - 1)) ELSE s

\* String.prototype.trim
Trim(s) == TrimEnd(TrimStart(s))

IsDigit(c) == c \in {"0", "1", "2"}

DigitVal(c) ==
    CASE c = "0" -> 0
      [] c = "1" -> 1
      [] c = "2" -> 2

RECURSIVE DigitPrefix(_)
DigitPrefix(s) ==
    IF s # <<>> /\ IsDigit(Head(s)) THEN <<Head(s)>> \o DigitPrefix(Tail(s)) ELSE <<>>

RECURSIVE DigitsValue(_, _)
DigitsValue(s, acc) ==
    IF s = <<>> THEN acc ELSE DigitsValue(Tail(s), 10 * acc + DigitVal(Head(s)))

\* parseFloat on the integer literals of the model: leading blanks, an
\* optional sign, then the longest run of digits; NaN when there is none.
ParseFloat(str) ==
    LET s == TrimStart(str)
        neg == s # <<>> /\ Head(s) = "-"
        body == IF neg THEN Tail(s) ELSE s
        digs == DigitPrefix(body)
    IN  IF digs = <<>>
        THEN [nan |-> TRUE, val |-> 0]
        ELSE [nan |-> FALSE,
              val |-> IF neg THEN 0 - DigitsValue(digs, 0) ELSE DigitsValue(digs, 0)]

\* ------------------------------------------------------------------ errors
\* The error cell: a message and, for the one template string of the
\* component, the value interpolated in it.
Err(m) == [msg |-> m, arg |-> <<>>]

NoError == Err("")

MsgEnterTicker == "Please enter a stock ticker"
MsgEnterShares == "Please enter a valid number of shares (greater than 0)"
MsgInvalidTicker == "Invalid ticker symbol: ${}. Please check and try again."
MsgValidateDown == "Unable to validate ticker. Make sure the backend is running."
MsgAddFirst == "Please add stocks to your portfolio first"
MsgStressFailed == "Failed to run stress test"
MsgStressDown == "Failed to run stress test. Make sure the backend is running."

\* ------------------------------------------------------------------ state
VARIABLES
    portfolio,          \* useState([]): sequence of [ticker, shares, id]
    ticker,             \* useState('')
    shares,             \* useState('')
    stressTestResults,  \* useState(null): "null" or the results of a response
    loading,            \* useState(false)
    aiInsights,         \* useState('')
    error,              \* useState('')
    validating,         \* useState(false)
    searchResults,      \* useState([])
    showSuggestions,    \* useState(false): "true", "false" or "undefined"
    searching,          \* useState(false)
    searchTimeout,      \* window.searchTimeout: 0 (undefined) or a timer handle
    timers,             \* pending debounce timers: set of [id, value]
    timerSeq,           \* last handle setTimeout handed out
    blurTimers,         \* number of pending onBlur timers
    searchCalls,        \* search-stocks calls in flight: set of [id, query]
    validateCalls,      \* validate-ticker calls in flight, in issue order
    stressCalls,        \* stress-test calls in flight, in issue order
    now,                \* Date.now()
    typed,              \* history: last value given to handleTickerChange
    fired,              \* history: handles of the debounce timers that expired
    selected,           \* history: selectStock ran and nothing was typed since
    issued,             \* history: the search-stocks calls ever sent
    appliedSearch,      \* history: call whose response searchResults shows
    validated           \* history: symbols a validate-ticker call found valid

vars == << portfolio, ticker, shares, stressTestResults, loading, aiInsights,
           error, validating, searchResults, showSuggestions, searching,
           searchTimeout, timers, timerSeq, blurTimers, searchCalls,
           validateCalls, stressCalls, now, typed, fired, selected, issued,
           appliedSearch, validated >>

formVars == << ticker, shares, error >>
stressVars == << stressTestResults, loading, aiInsights, stressCalls >>
searchVars == << searchResults, showSuggestions, searching, searchCalls,
                 issued, appliedSearch >>
timerVars == << searchTimeout, timers, timerSeq, typed, fired, selected >>
addVars == << portfolio, validating, validateCalls, validated >>

Init ==
    /\ portfolio = <<>>
    /\ ticker = <<>>
    /\ shares = <<>>
    /\ stressTestResults = "null"
    /\ loading = FALSE
    /\ aiInsights = ""
    /\ error = NoError
    /\ validating = FALSE
    /\ searchResults = <<>>
    /\ showSuggestions = "false"
    /\ searching = FALSE
    /\ searchTimeout = 0
    /\ timers = {}
    /\ timerSeq = 0
    /\ blurTimers = 0
    /\ searchCalls = {}
    /\ validateCalls = <<>>
    /\ stressCalls = <<>>
    /\ now = 0
    /\ typed = <<>>
    /\ fired = {}
    /\ selected = FALSE
    /\ issued = {}
    /\ appliedSearch = 0
    /\ validated = {}

\* ------------------------------------------------------------------ search
\* Mutant of EmptyQuery: the guard of line 20 never taken.
EmptyQueryNever(query) == FALSE

\* Line 20: !query || query.length < 1
EmptyQuery(query) == query = <<>> \/ Len(query) < 1

\* Answers of GET /api/search-stocks: a body with or without a results field.
SearchData ==
    { [has |-> FALSE, results |-> <<>>] } \cup
    { [has |-> TRUE, results |-> r] : r \in ResultLists }

\* Line 30: data.results || []   (an empty array is truthy)
ResultsOrEmpty(data) == IF data.has THEN data.results ELSE <<>>

\* Line 31: data.results && data.results.length > 0
HasSuggestions(data) ==
    IF ~data.has THEN "undefined"
    ELSE IF Len(data.results) > 0 THEN "true" ELSE "false"

\* searchStocks(query) up to its await; id names the call it puts in flight.
SearchStocks(id, query) ==
    IF EmptyQuery(query)
    THEN /\ searchResults' = <<>>
         /\ showSuggestions' = "false"
         /\ appliedSearch' = 0
         /\ UNCHANGED << searching, searchCalls, issued >>
    ELSE /\ searching' = TRUE
         /\ searchCalls' = searchCalls \cup { [id |-> id, query |-> query] }
         /\ issued' = issued \cup { [id |-> id, query |-> query] }
         /\ UNCHANGED << searchResults, showSuggestions, appliedSearch >>

\* searchStocks after the await, the response parsed: lines 29-31, 35-37.
SearchResolved(call, data) ==
    /\ call \in searchCalls
    /\ searchCalls' = searchCalls \ {call}
    /\ searchResults' = ResultsOrEmpty(data)
    /\ showSuggestions' = HasSuggestions(data)
    /\ searching' = FALSE
    /\ appliedSearch' = call.id
    /\ UNCHANGED << issued, portfolio, formVars, stressVars, validating, validateCalls,
                    validated, timerVars, blurTimers, now >>

\* searchStocks after the await, fetch or response.json() rejected: 32-37.
SearchRejected(call) ==
    /\ call \in searchCalls
    /\ searchCalls' = searchCalls \ {call}
    /\ searchResults' = <<>>
    /\ searching' = FALSE
    /\ appliedSearch' = 0
    /\ UNCHANGED << issued, showSuggestions, portfolio, formVars, stressVars, validating,
                    validateCalls, validated, timerVars, blurTimers, now >>

\* Mutant of ClearTimeout: the pending timer left running.
ClearTimeoutSkipped(handle, pending) == pending

\* Lines 46-48: clearTimeout(window.searchTimeout) when the handle is set.
ClearTimeout(handle, pending) ==
    IF handle # 0 THEN { t \in pending : t.id # handle } ELSE pending

\* handleTickerChange(value): the onChange of the ticker input.
HandleTickerChange(value) ==
    /\ timerSeq < MaxTimers
    /\ ticker' = value
    /\ error' = NoError
    /\ timers' = ClearTimeout(searchTimeout, timers) \cup
                 { [id |-> timerSeq + 1, value |-> value] }
    /\ searchTimeout' = timerSeq + 1
    /\ timerSeq' = timerSeq + 1
    /\ typed' = value
    /\ selected' = FALSE
    /\ UNCHANGED fired
    /\ UNCHANGED << portfolio, shares, stressVars, searchVars, validating,
                    validateCalls, validated, blurTimers, now >>

\* The debounce timer of lines 51-53 expires and calls searchStocks(value).
SearchTimerFires(t) ==
    /\ t \in timers
    /\ timers' = timers \ {t}
    /\ fired' = fired \cup {t.id}
    /\ SearchStocks(t.id, t.value)
    /\ UNCHANGED << portfolio, formVars, stressVars, validating, validateCalls,
                    validated, searchTimeout, timerSeq, typed, selected, blurTimers,
                    now >>

\* selectStock(stock)
SelectStock(stock) ==
    /\ ticker' = stock.ticker
    /\ searchResults' = <<>>
    /\ showSuggestions' = "false"
    /\ appliedSearch' = 0
    /\ selected' = TRUE
    /\ UNCHANGED << portfolio, shares, error, stressVars, searching, searchCalls,
                    issued, validating, validateCalls, validated, searchTimeout,
                    timers, timerSeq, typed, fired, blurTimers, now >>

\* Line 192: the dropdown is rendered.
DropdownShown == showSuggestions = "true" /\ Len(searchResults) > 0

\* A click on the i-th suggestion of the dropdown (lines 194-199).
ClickSuggestion(i) ==
    /\ DropdownShown
    /\ i \in DOMAIN searchResults
    /\ SelectStock(searchResults[i])

\* Line 185: onFocus of the ticker input.
FocusTicker ==
    /\ showSuggestions' =
          IF ticker # <<>> /\ Len(searchResults) > 0 THEN "true" ELSE showSuggestions
    /\ UNCHANGED << portfolio, formVars, stressVars, searchResults, searching,
                    searchCalls, issued, appliedSearch, validating, validateCalls,
                    validated, timerVars, blurTimers, now >>

\* Line 186: onBlur of the ticker input starts a timer.
BlurTicker ==
    /\ blurTimers < MaxBlur
    /\ blurTimers' = blurTimers + 1
    /\ UNCHANGED << portfolio, formVars, stressVars, searchVars, validating,
                    validateCalls, validated, timerVars, now >>

\* Line 186: the onBlur timer expires.
BlurTimerFires ==
    /\ blurTimers > 0
    /\ blurTimers' = blurTimers - 1
    /\ showSuggestions' = "false"
    /\ UNCHANGED << portfolio, formVars, stressVars, searchResults, searching,
                    searchCalls, issued, appliedSearch, validating, validateCalls,
                    validated, timerVars, now >>

\* Line 217: onChange of the shares input.
ChangeShares(value) ==
    /\ shares' = value
    /\ UNCHANGED << portfolio, ticker, error, stressVars, searchVars, validating,
                    validateCalls, validated, timerVars, blurTimers, now >>

\* ------------------------------------------------------------------ addStock
\* Mutant of TickerMissing: the trim() of line 69 left out.
TickerMissingNoTrim(t) == t = <<>>

\* Line 69: !ticker || ticker.trim() === ''
TickerMissing(t) == t = <<>> \/ Trim(t) = <<>>

\* Lines 75-76: !shares || isNaN(sharesNum) || sharesNum <= 0
SharesInvalid(s) ==
    LET sharesNum == ParseFloat(s)
    IN  s = <<>> \/ sharesNum.nan \/ sharesNum.val <= 0

\* Line 89: the body of the validate-ticker request.
ValidateBody(t) == [ticker |-> ToUpperCase(t)]

\* Lines 84-90: the call put in flight, with what the closure of this
\* addStock holds: ticker, sharesNum and portfolio of the render it ran in.
ValidateCall(t, s, p) ==
    [ticker |-> t, sharesNum |-> ParseFloat(s).val, portfolio |-> p,
     body |-> ValidateBody(t)]

\* addStock() up to its await.
AddStock ==
    IF TickerMissing(ticker)
    THEN /\ error' = Err(MsgEnterTicker)
         /\ UNCHANGED << ticker, shares, addVars >>
    ELSE IF SharesInvalid(shares)
    THEN /\ error' = Err(MsgEnterShares)
         /\ UNCHANGED << ticker, shares, addVars >>
    ELSE /\ Len(validateCalls) < MaxValidate
         /\ Len(portfolio) < MaxPortfolio
         /\ error' = NoError
         /\ validating' = TRUE
         /\ validateCalls' = Append(validateCalls, ValidateCall(ticker, shares, portfolio))
         /\ UNCHANGED << ticker, shares, portfolio, validated >>

addFrame == << stressVars, searchVars, timerVars, blurTimers, now >>

\* Line 220: the Add Stock button, disabled while validating.
AddButtonDisabled == validating

ClickAddStock ==
    /\ ~AddButtonDisabled
    /\ AddStock
    /\ UNCHANGED addFrame

\* Lines 184 and 218: Enter in the ticker input or in the shares input.
PressEnter ==
    /\ AddStock
    /\ UNCHANGED addFrame

\* The sequence without its k-th element.
RemoveAt(seq, k) == SubSeq(seq, 1, k - 1) \o SubSeq(seq, k + 1, Len(seq))

\* Mutant of NewHolding: the ticker stored as typed.
NewHoldingRawTicker(call, t) ==
    [ticker |-> call.ticker, shares |-> call.sharesNum, id |-> t]

\* Lines 101-105: the holding appended by the call, made at time t.
NewHolding(call, t) ==
    [ticker |-> ToUpperCase(call.ticker), shares |-> call.sharesNum, id |-> t]

\* Line 101: [...portfolio, holding] over the portfolio the closure holds.
PortfolioWith(call, t) == Append(call.portfolio, NewHolding(call, t))

\* addStock after the await, data.valid truthy: lines 100-108, 113.
ValidateValid(k) ==
    /\ k \in DOMAIN validateCalls
    /\ LET call == validateCalls[k]
       IN  /\ portfolio' = PortfolioWith(call, now)
           /\ validated' = validated \cup { call.body.ticker }
    /\ validateCalls' = RemoveAt(validateCalls, k)
    /\ ticker' = <<>>
    /\ shares' = <<>>
    /\ error' = NoError
    /\ validating' = FALSE
    /\ UNCHANGED addFrame

\* Line 95: the error for a ticker the collaborator does not know.
InvalidTickerError(call) == [msg |-> MsgInvalidTicker, arg |-> ToUpperCase(call.ticker)]

\* Mutant of ValidateInvalid: the return of line 97 left out.
ValidateInvalidNoReturn(k) == ValidateValid(k)

\* addStock after the await, data.valid falsy: lines 94-98, 113.
ValidateInvalid(k) ==
    /\ k \in DOMAIN validateCalls
    /\ error' = InvalidTickerError(validateCalls[k])
    /\ validateCalls' = RemoveAt(validateCalls, k)
    /\ validating' = FALSE
    /\ UNCHANGED << portfolio, ticker, shares, validated, addFrame >>

\* Mutant of ValidateFailedError: the message of line 95 reused.
ValidateFailedErrorAsInvalid == [msg |-> MsgInvalidTicker, arg |-> <<>>]

\* Line 111: the error when the call itself failed.
ValidateFailedError == Err(MsgValidateDown)

\* addStock after the await, fetch or response.json() rejected: 109-114.
ValidateRejected(k) ==
    /\ k \in DOMAIN validateCalls
    /\ error' = ValidateFailedError
    /\ validateCalls' = RemoveAt(validateCalls, k)
    /\ validating' = FALSE
    /\ UNCHANGED << portfolio, ticker, shares, validated, addFrame >>

\* removeStock(id)
RemoveStock(id) ==
    /\ portfolio' = SelectSeq(portfolio, LAMBDA stock : stock.id # id)
    /\ UNCHANGED << formVars, stressVars, searchVars, validating, validateCalls,
                    validated, timerVars, blurTimers, now >>

\* Lines 243-248: the Remove button of the i-th row.
ClickRemove(i) ==
    /\ i \in DOMAIN portfolio
    /\ RemoveStock(portfolio[i].id)

\* ------------------------------------------------------------------ stress test
\* Mutant of PortfolioEmpty: the guard of line 124 never taken.
PortfolioEmptyNever(p) == Len(p) < 0

\* Line 124
PortfolioEmpty(p) == Len(p) = 0

\* Line 137: the body of the stress-test request.
StressBody(p) == [portfolio |-> p]

\* runStressTest() up to its await.
RunStressTest ==
    /\ IF PortfolioEmpty(portfolio)
       THEN /\ error' = Err(MsgAddFirst)
            /\ UNCHANGED << loading, stressCalls >>
       ELSE /\ Len(stressCalls) < MaxStress
            /\ loading' = TRUE
            /\ error' = NoError
            /\ stressCalls' = Append(stressCalls, [body |-> StressBody(portfolio)])
    /\ UNCHANGED << portfolio, ticker, shares, stressTestResults, aiInsights,
                    searchVars, validating, validateCalls, validated, timerVars,
                    blurTimers, now >>

\* A Run Stress Test button that stays enabled while a request is pending.
StressButtonDisabledNoLoading == Len(portfolio) = 0

\* Line 261: the Run Stress Test button.
StressButtonDisabled == loading \/ Len(portfolio) = 0

ClickStressTest ==
    /\ ~StressButtonDisabled
    /\ RunStressTest

stressFrame == << portfolio, ticker, shares, searchVars, validating, validateCalls,
                  validated, timerVars, blurTimers, now >>

\* runStressTest after the await, response.ok: lines 142-145, 153.
StressOk(k, data) ==
    /\ k \in DOMAIN stressCalls
    /\ stressCalls' = RemoveAt(stressCalls, k)
    /\ stressTestResults' = data.results
    /\ aiInsights' = data.ai_insights
    /\ error' = NoError
    /\ loading' = FALSE
    /\ UNCHANGED stressFrame

\* An error taken from the response without the default message.
StressErrorRaw(e) == Err(e)

\* Line 147: data.error || 'Failed to run stress test'
StressError(e) == Err(IF e # "" THEN e ELSE MsgStressFailed)

\* runStressTest after the await, a non-success status: lines 146-148, 153.
StressNotOk(k, e) ==
    /\ k \in DOMAIN stressCalls
    /\ stressCalls' = RemoveAt(stressCalls, k)
    /\ error' = StressError(e)
    /\ loading' = FALSE
    /\ UNCHANGED << stressTestResults, aiInsights, stressFrame >>

\* A rejection whose handler leaves loading as it is.
StressRejectedNoFinally(k) ==
    /\ k \in DOMAIN stressCalls
    /\ stressCalls' = RemoveAt(stressCalls, k)
    /\ error' = Err(MsgStressDown)
    /\ UNCHANGED << loading, stressTestResults, aiInsights, stressFrame >>

\* runStressTest after the await, fetch or response.json() rejected: 149-154.
StressRejected(k) ==
    /\ k \in DOMAIN stressCalls
    /\ stressCalls' = RemoveAt(stressCalls, k)
    /\ error' = Err(MsgStressDown)
    /\ loading' = FALSE
    /\ UNCHANGED << stressTestResults, aiInsights, stressFrame >>

\* Line 104: Date.now() moves on.
Tick ==
    /\ now < MaxNow
    /\ now' = now + 1
    /\ UNCHANGED << portfolio, formVars, stressVars, searchVars, validating,
                    validateCalls, validated, timerVars, blurTimers >>

\* ------------------------------------------------------------------ system
\* The ticker input, its debounced search and the suggestions dropdown.
SearchNext ==
    \/ \E value \in TypedValues : HandleTickerChange(value)
    \/ \E t \in timers : SearchTimerFires(t)
    \/ \E call \in searchCalls, data \in SearchData : SearchResolved(call, data)
    \/ \E call \in searchCalls : SearchRejected(call)
    \/ \E i \in DOMAIN searchResults : ClickSuggestion(i)
    \/ FocusTicker
    \/ BlurTicker
    \/ BlurTimerFires

\* The two inputs, the Add Stock button and the portfolio table.
PortfolioNext ==
    \/ \E value \in TypedValues : HandleTickerChange(value)
    \/ \E value \in ShareInputs : ChangeShares(value)
    \/ ClickAddStock
    \/ PressEnter
    \/ \E k \in DOMAIN validateCalls : ValidateValid(k)
    \/ \E k \in DOMAIN validateCalls : ValidateInvalid(k)
    \/ \E k \in DOMAIN validateCalls : ValidateRejected(k)
    \/ \E i \in DOMAIN portfolio : ClickRemove(i)
    \/ Tick

\* The Run Stress Test button.
StressNext ==
    \/ ClickStressTest
    \/ \E k \in DOMAIN stressCalls, data \in StressBodies : StressOk(k, data)
    \/ \E k \in DOMAIN stressCalls, e \in ServerErrors : StressNotOk(k, e)
    \/ \E k \in DOMAIN stressCalls : StressRejected(k)

\* The component in the browser: the handlers run from the rendered page.
Next == SearchNext \/ PortfolioNext \/ StressNext

Spec == Init /\ [][Next]_vars

\* The three parts of the page meet only in ticker, error and portfolio;
\* each is explored exhaustively with the user staying within it.
SpecSearch == Init /\ [][SearchNext]_vars

SpecPortfolio == Init /\ [][PortfolioNext]_vars

\* The stress test over portfolios built with the Add Stock button and
\* answered valid.
BuildNext ==
    \/ \E value \in TypedValues : HandleTickerChange(value)
    \/ \E value \in ShareInputs : ChangeShares(value)
    \/ ClickAddStock
    \/ \E k \in DOMAIN validateCalls : ValidateValid(k)
    \/ \E i \in DOMAIN portfolio : ClickRemove(i)
    \/ Tick

\* The portfolio part with the Add Stock button as the only way to add:
\* one validate-ticker call at a time.
SpecBuild == Init /\ [][BuildNext]_vars

SpecStress == Init /\ [][BuildNext \/ StressNext]_vars

\* The handlers called as functions, runStressTest also where the page
\* disables its button.
CallRunStressTest == RunStressTest

SpecCalls == Init /\ [][BuildNext \/ StressNext \/ CallRunStressTest]_vars

\* The three requests of the page together, each with all its outcomes, for
\* one value typed in each input and one body for each kind of response
\* (the flags are set whatever the body holds).
LiveTyped == { <<"a">> }
LiveShares == { <<"2">> }
LiveSearchData == { [has |-> TRUE, results |-> <<StockA>>] }
LiveStressBodies == { [results |-> "R1", ai_insights |-> "I1"] }
LiveErrors == { "" }

\* Lines 22, 84 and 131: the responses of the three fetch calls.
SearchSettles ==
    \/ \E call \in searchCalls, data \in LiveSearchData : SearchResolved(call, data)
    \/ \E call \in searchCalls : SearchRejected(call)

ValidateSettles ==
    \/ \E k \in DOMAIN validateCalls : ValidateValid(k)
    \/ \E k \in DOMAIN validateCalls : ValidateInvalid(k)
    \/ \E k \in DOMAIN validateCalls : ValidateRejected(k)

StressSettles ==
    \/ \E k \in DOMAIN stressCalls, data \in LiveStressBodies : StressOk(k, data)
    \/ \E k \in DOMAIN stressCalls, e \in LiveErrors : StressNotOk(k, e)
    \/ \E k \in DOMAIN stressCalls : StressRejected(k)

LiveNext ==
    \/ \E value \in LiveTyped : HandleTickerChange(value)
    \/ \E t \in timers : SearchTimerFires(t)
    \/ \E value \in LiveShares : ChangeShares(value)
    \/ ClickAddStock
    \/ PressEnter
    \/ ClickStressTest
    \/ SearchSettles
    \/ ValidateSettles
    \/ StressSettles

\* Every request in flight is answered or fails: a pending fetch settles.
SpecLive ==
    /\ Init
    /\ [][LiveNext]_vars
    /\ WF_vars(SearchSettles)
    /\ WF_vars(ValidateSettles)
    /\ WF_vars(StressSettles)

\* ------------------------------------------------------------------ claims
\* The search-stocks call sent last, and the one with a given id.
LastIssued == CHOOSE c \in issued : \A d \in issued : d.id <= c.id

IssuedAs(id) == CHOOSE c \in issued : c.id = id

\* A string that is empty or holds blanks only.
OnlyBlanks(s) == \A i \in DOMAIN s : s[i] = " "

\* A string that is the decimal literal of a number greater than 0.
PositiveNumber(s) ==
    /\ s # <<>>
    /\ \A i \in DOMAIN s : s[i] \in {"0", "1", "2"}
    /\ \E i \in DOMAIN s : s[i] # "0"

\* A string without lowercase letters.
IsUpperCase(s) == \A i \in DOMAIN s : s[i] \notin {"a", "b"}

\* C1: once no search-stocks call is in flight, a suggestion list that came
\* from a response answers the query of the call that was sent last,
\* whatever the order in which the responses arrived.
C1_LatestQueryWins ==
    (searchCalls = {} /\ appliedSearch # 0)
        => IssuedAs(appliedSearch).query = LastIssued.query

\* C2: at most one validate-ticker call is in flight in every reachable
\* state, whatever the clicks on Add Stock and the Enter key presses.
C2_OneValidationInFlight == Len(validateCalls) <= 1

\* C3: an addStock with an empty or blank ticker, or with shares that are
\* not the literal of a number greater than 0, sends no validate-ticker
\* call, sets a non-empty error and leaves portfolio, ticker and shares as
\* they were.
C3_InvalidInputRejected ==
    [][ ( /\ ClickAddStock \/ PressEnter
          /\ OnlyBlanks(ticker) \/ ~PositiveNumber(shares) )
        => ( /\ validateCalls' = validateCalls
             /\ error'.msg # ""
             /\ portfolio' = portfolio
             /\ ticker' = ticker
             /\ shares' = shares ) ]_vars

\* An addStock refused a ticker of blanks.
C3_Witness ==
    /\ error = Err(MsgEnterTicker)
    /\ ticker # <<>>
    /\ OnlyBlanks(ticker)

\* C4: runStressTest on an empty portfolio sends no stress-test call, sets
\* a non-empty error and leaves loading, stressTestResults and aiInsights
\* as they were; and every stress-test call in flight carries a portfolio
\* that is not empty.
C4_EmptyPortfolioRejected ==
    /\ [][ (RunStressTest /\ Len(portfolio) = 0)
           => ( /\ stressCalls' = stressCalls
                /\ error'.msg # ""
                /\ loading' = loading
                /\ stressTestResults' = stressTestResults
                /\ aiInsights' = aiInsights ) ]_vars
    /\ [](\A k \in DOMAIN stressCalls : Len(stressCalls[k].body.portfolio) > 0)

\* runStressTest ran on an empty portfolio after an earlier stress test.
C4_Witness ==
    /\ error = Err(MsgAddFirst)
    /\ portfolio = <<>>
    /\ stressTestResults # "null"

\* C5: when validate-ticker answers that the ticker is not valid, the
\* portfolio is left as it was and the error is the Invalid ticker symbol
\* message.
C5_UnknownTickerKeepsPortfolio ==
    [][ \A k \in DOMAIN validateCalls :
          ValidateInvalid(k) => ( /\ portfolio' = portfolio
                                  /\ error'.msg = MsgInvalidTicker ) ]_vars

\* An unknown ticker was refused while the portfolio held a stock.
C5_Witness ==
    /\ error.msg = MsgInvalidTicker
    /\ portfolio # <<>>

CollaboratorFails ==
    \/ \E call \in searchCalls : SearchRejected(call)
    \/ \E k \in DOMAIN validateCalls : ValidateRejected(k)
    \/ \E k \in DOMAIN stressCalls : StressRejected(k)
    \/ \E k \in DOMAIN stressCalls, e \in ServerErrors : StressNotOk(k, e)

\* C7: every failure of a collaborator call leaves a non-empty error.
C7_NoFailureSwallowed == [][ CollaboratorFails => error'.msg # "" ]_vars

\* C8: at most one debounce timer is pending and it holds the value typed
\* last; a search-stocks call is sent only by the timer set last and
\* carries the value typed last.
C8_Debounce ==
    /\ [](/\ Cardinality(timers) <= 1
          /\ \A t \in timers : t.id = timerSeq /\ t.value = typed)
    /\ [][ \A call \in searchCalls' \ searchCalls :
             /\ call.id = timerSeq
             /\ call.query = typed ]_vars

\* The first timer was cancelled by the second keystroke and the value of
\* the second keystroke was searched.
C8_Witness ==
    /\ timerSeq = 2
    /\ timers = {}
    /\ fired = {2}
    /\ issued = { [id |-> 2, query |-> typed] }

\* C9: searchStocks with an empty query sends no search-stocks call, sets
\* searchResults to [] and showSuggestions to false.
C9_EmptyQueryNoCall ==
    [][ \A t \in timers :
          (SearchTimerFires(t) /\ t.value = <<>>)
          => ( /\ searchCalls' = searchCalls
               /\ searchResults' = <<>>
               /\ showSuggestions' = "false" ) ]_vars

\* The timer of an emptied input fired after an earlier search was sent.
C9_Witness ==
    /\ typed = <<>>
    /\ timerSeq \in fired
    /\ issued # {}
    /\ \A c \in issued : c.id # timerSeq

\* C10: every holding has shares > 0 and an uppercase symbol, and its
\* symbol is one a validate-ticker call was sent for and answered valid.
C10_HoldingsValidated ==
    \A i \in DOMAIN portfolio :
        /\ portfolio[i].shares > 0
        /\ IsUpperCase(portfolio[i].ticker)
        /\ portfolio[i].ticker \in validated

\* The portfolio holds a stock that was typed in lowercase.
C10_Witness ==
    \E i \in DOMAIN portfolio :
        /\ portfolio[i].ticker = <<"A", "B">>
        /\ portfolio[i].shares = 2

\* How many times holding h stands in the sequence p.
Count(h, p) == Cardinality({ i \in DOMAIN p : p[i] = h })

\* The holdings of the portfolio before or after the step.
Holdings == { portfolio[i] : i \in DOMAIN portfolio } \cup
            { portfolio'[i] : i \in DOMAIN portfolio' }

\* C11: a holding leaves the portfolio only in a removeStock on its id, and
\* a holding enters the portfolio only as the one new holding of an addStock
\* that completes: a removed holding does not come back by itself.
C11_RemovedStaysRemoved ==
    [][ \A h \in Holdings :
          /\ Count(h, portfolio') < Count(h, portfolio)
                => \E i \in DOMAIN portfolio :
                       ClickRemove(i) /\ portfolio[i].id = h.id
          /\ Count(h, portfolio') > Count(h, portfolio)
                => \E k \in DOMAIN validateCalls :
                       /\ ValidateValid(k)
                       /\ h = NewHolding(validateCalls[k], now)
                       /\ Count(h, portfolio') = Count(h, portfolio) + 1 ]_vars

\* C12: an addStock that completes for a symbol the portfolio already holds
\* appends one holding at the end and leaves the others as they were.
C12_DuplicateSymbolAppended ==
    [][ \A k \in DOMAIN validateCalls :
          ( /\ ValidateValid(k)
            /\ \E i \in DOMAIN portfolio :
                   portfolio[i].ticker = ToUpperCase(validateCalls[k].ticker) )
          => /\ Len(portfolio') = Len(portfolio) + 1
             /\ SubSeq(portfolio', 1, Len(portfolio)) = portfolio
             /\ portfolio'[Len(portfolio')].ticker =
                    ToUpperCase(validateCalls[k].ticker) ]_vars

\* C15: the holding of an addStock that completes is in the portfolio, and
\* no step other than a removeStock takes a holding out of it.
C15_NoAddLost ==
    [][ /\ \A k \in DOMAIN validateCalls :
              ValidateValid(k)
              => Count(NewHolding(validateCalls[k], now), portfolio') >
                     Count(NewHolding(validateCalls[k], now), portfolio)
        /\ (\A i \in DOMAIN portfolio : ~ClickRemove(i))
              => \A h \in Holdings : Count(h, portfolio') >= Count(h, portfolio) ]_vars

\* C17: removeStock takes out the one holding whose Remove button was
\* clicked and leaves the others in their order.
C17_RemovesExactlyOne ==
    [][ \A i \in DOMAIN portfolio :
          ClickRemove(i) => portfolio' = RemoveAt(portfolio, i) ]_vars

\* C13: at most one stress-test request is outstanding, loading is true
\* exactly while one is, and stressTestResults and aiInsights change only in
\* the step in which a request completes with a success status.
C13_StressSingleRoundTrip ==
    /\ [](Len(stressCalls) <= 1 /\ (loading <=> stressCalls # <<>>))
    /\ [][ (stressTestResults' # stressTestResults \/ aiInsights' # aiInsights)
           => \E k \in DOMAIN stressCalls, data \in StressBodies :
                  StressOk(k, data) ]_vars

\* A second round trip is under way after a first one succeeded.
C13_Witness ==
    loading /\ Len(stressCalls) = 1 /\ stressTestResults # "null"

\* C14: a stress-test request that returns a non-success status or throws
\* sets a non-empty error, the text of the response or a default message, and
\* keeps stressTestResults, aiInsights and portfolio; one that returns success
\* replaces stressTestResults and aiInsights from its response and clears error.
C14_StressOutcomes ==
    [][ \A k \in DOMAIN stressCalls :
          /\ \A e \in ServerErrors :
                StressNotOk(k, e)
                => /\ error'.msg # ""
                   /\ error'.msg \in {e, MsgStressFailed}
                   /\ UNCHANGED << stressTestResults, aiInsights, portfolio >>
          /\ StressRejected(k)
                => /\ error'.msg = MsgStressDown
                   /\ error'.msg # ""
                   /\ UNCHANGED << stressTestResults, aiInsights, portfolio >>
          /\ \A data \in StressBodies :
                StressOk(k, data)
                => /\ stressTestResults' = data.results
                   /\ aiInsights' = data.ai_insights
                   /\ error' = NoError ]_vars

\* A request failed without an error text after an earlier one succeeded:
\* the default message is shown and the earlier results are kept.
C14_Witness ==
    /\ error = Err(MsgStressFailed)
    /\ stressTestResults # "null"
    /\ ~loading

\* C16: from a selectStock until the next keystroke in the ticker input the
\* suggestion list is empty and hidden.
C16_SelectionKeepsListClosed ==
    selected => (searchResults = <<>> /\ showSuggestions # "true")

\* C18: validating is true exactly while a validate-ticker call is in
\* flight and searching is true exactly while a search-stocks call is.
C18_FlagsMatchCalls ==
    /\ validating <=> validateCalls # <<>>
    /\ searching <=> searchCalls # {}

\* C19: when every request in flight is eventually answered or fails,
\* loading, validating and searching each return to false after being set.
C19_FlagsReturnToFalse ==
    /\ loading ~> ~loading
    /\ validating ~> ~validating
    /\ searching ~> ~searching

\* All three flags are back to false after a stress test ran, a holding was
\* added and a search was answered.
C19_Witness ==
    /\ ~loading /\ ~validating /\ ~searching
    /\ stressTestResults # "null"
    /\ portfolio # <<>>
    /\ appliedSearch # 0

====
